---- MODULE Spec2Model ----
(***************************************************************************)
(* Model of src/ui.rs of ledger-nanos-ui: the button event classifier      *)
(* (get_button_event), the event source (get_event) and the widgets built  *)
(* on them (Validator, MessageValidator, Menu, SingleMessage,              *)
(* MessageScroller, HScroller).                                            *)
(*                                                                         *)
(* One step of the model is one buffer delivered by seph_recv to the       *)
(* widget loop that is blocked in get_event, followed by everything the    *)
(* widget does with get_event's result before it blocks again.             *)
(***************************************************************************)
EXTENDS Integers, Sequences, FiniteSets, TLC

----------------------------------------------------------------------------
(* Bounds of the model *)

\* cmd_buffer[3] ranges over 0..MaxByte3 (levels 0..MaxByte3 \div 2)
MaxByte3 == 9
\* tags range over BUTTON_PUSH_TAG-TagSpread .. BUTTON_PUSH_TAG+TagSpread
TagSpread == 1
\* MessageValidator: message.len() in 0..MaxPages
MaxPages == 3
\* Menu: panels.len() in 0..MaxPanels
MaxPanels == 5
\* MessageScroller: message.len() is 0, 1 or within 1 of k * CHAR_N for
\* k in 1..MaxChunks
MaxChunks == 2
\* HScroller: screens.len() in 0..MaxScreens
MaxScreens == 3

(* Program constants *)

\* ui.rs:75  `if tag == 0x05`
BUTTON_PUSH_TAG == 5
\* ui.rs:373 `const CHAR_N: usize = 16`
CHAR_N == 16
\* ui.rs:374 usize arithmetic: usize is 32 bits wide on the device, and
\* usize::MAX = USIZE_HALF * USIZE_HALF - 1 is kept as two 16-bit halves
USIZE_HALF == 65536
\* ui.rs:9 `button_mask: u8`
U8_MOD == 256

----------------------------------------------------------------------------
(* ui.rs:30-37  enum Event, and Option<Event>::None *)

Presses == {"LeftButtonPress", "RightButtonPress", "BothButtonsPress"}
Releases == {"LeftButtonRelease", "RightButtonRelease", "BothButtonsRelease"}
Event == Presses \cup Releases
NoEvent == "None"

Widgets == {"Validator", "MessageValidator", "Menu", "SingleMessage",
            "MessageScroller", "HScroller"}

VARIABLES
    widget,       \* which widget's loop owns the thread of control
    len,          \* length of the widget's input slice / string
    pc,           \* "start", "loop", "done", "panicked"
    button_mask,  \* ButtonsState.button_mask
    cmd_buffer,   \* ButtonsState.cmd_buffer
    response,     \* Validator::ask        `response`
    page_count,   \* MessageValidator::ask / MessageScroller::event_loop
    cur_page,     \* MessageValidator::ask / MessageScroller::event_loop
    index,        \* Menu::show            `index`
    cur_idx,      \* HScroller::event_loop `cur_idx`
    ret,          \* <<v>> once the widget has returned v, <<>> before
    drawn,        \* drawing calls issued by the last step, in order
    old,          \* history: button_mask before the last classifier call
    ev,           \* history: what get_event handed to the widget last
    held,         \* history: OR of the levels reported since the last level 0
    lastLR,       \* history: most recent Left/Right release seen ("none")
    pressed,      \* history: press events emitted since the last level 0
    rights,       \* history (MessageValidator): RightButtonRelease events
                  \* received so far, counted up to len + 1
    seen          \* history (MessageValidator): message pages drawn so far

vars == <<widget, len, pc, button_mask, cmd_buffer, response,
          page_count, cur_page, index, cur_idx, ret, drawn, old, ev, held,
          lastLR, pressed, rights, seen>>

----------------------------------------------------------------------------
(* Integer helpers *)

Min(a, b) == IF a < b THEN a ELSE b
Max(a, b) == IF a > b THEN a ELSE b

\* bitwise OR of two naturals (ui.rs:43 `|=`)
RECURSIVE BitOr(_, _)
BitOr(a, b) ==
    IF a = 0 THEN b
    ELSE IF b = 0 THEN a
    ELSE Max(a % 2, b % 2) + 2 * BitOr(a \div 2, b \div 2)

\* ui.rs:76 `buttons.cmd_buffer[3]>>1` (Rust index 3 is TLA+ index 4)
button_info(buf) == buf[4] \div 2

\* usize::MAX / d for a divisor d of USIZE_HALF
UsizeMaxDiv(d) == (USIZE_HALF - 1) * (USIZE_HALF \div d) + (USIZE_HALF - 1) \div d

\* usize::saturating_sub (ui.rs:288)
saturating_sub(a, b) == IF a >= b THEN a - b ELSE 0

----------------------------------------------------------------------------
(* ui.rs:41-59  get_button_event: the result and the updated button_mask *)

\* mutant: the release arm forgets `buttons.button_mask = 0`
get_button_event_NoReset(mask, new) ==
    LET b == mask
        ored == BitOr(mask, new) % U8_MOD
    IN  CASE b = 0 /\ new = 1 ->
               [event |-> "LeftButtonPress", button_mask |-> ored]
          [] b = 0 /\ new = 2 ->
               [event |-> "RightButtonPress", button_mask |-> ored]
          [] new = 3 ->
               [event |-> "BothButtonsPress", button_mask |-> ored]
          [] new = 0 ->
               [event |-> CASE b = 1 -> "LeftButtonRelease"
                            [] b = 2 -> "RightButtonRelease"
                            [] b = 3 -> "BothButtonsRelease"
                            [] OTHER -> NoEvent,
                button_mask |-> ored]
          [] OTHER ->
               [event |-> NoEvent, button_mask |-> ored]

\* mutant: `button_mask = new` instead of `button_mask |= new`
get_button_event_Assign(mask, new) ==
    LET b == mask
    IN  CASE b = 0 /\ new = 1 ->
               [event |-> "LeftButtonPress", button_mask |-> new]
          [] b = 0 /\ new = 2 ->
               [event |-> "RightButtonPress", button_mask |-> new]
          [] new = 3 ->
               [event |-> "BothButtonsPress", button_mask |-> new]
          [] new = 0 ->
               [event |-> CASE b = 1 -> "LeftButtonRelease"
                            [] b = 2 -> "RightButtonRelease"
                            [] b = 3 -> "BothButtonsRelease"
                            [] OTHER -> NoEvent,
                button_mask |-> 0]
          [] OTHER ->
               [event |-> NoEvent, button_mask |-> new]

\* mutant: BothButtonsPress only on the edge, `(0..=2, 3)` instead of `(_, 3)`
get_button_event_EdgeTriggered(mask, new) ==
    LET b == mask
        ored == BitOr(mask, new) % U8_MOD
    IN  CASE b = 0 /\ new = 1 ->
               [event |-> "LeftButtonPress", button_mask |-> ored]
          [] b = 0 /\ new = 2 ->
               [event |-> "RightButtonPress", button_mask |-> ored]
          [] new = 3 /\ b # 3 ->
               [event |-> "BothButtonsPress", button_mask |-> ored]
          [] new = 0 ->
               [event |-> CASE b = 1 -> "LeftButtonRelease"
                            [] b = 2 -> "RightButtonRelease"
                            [] b = 3 -> "BothButtonsRelease"
                            [] OTHER -> NoEvent,
                button_mask |-> 0]
          [] OTHER ->
               [event |-> NoEvent, button_mask |-> ored]

get_button_event(mask, new) ==
    LET b == mask
        ored == BitOr(mask, new) % U8_MOD
    IN  CASE b = 0 /\ new = 1 ->
               [event |-> "LeftButtonPress", button_mask |-> ored]
          [] b = 0 /\ new = 2 ->
               [event |-> "RightButtonPress", button_mask |-> ored]
          [] new = 3 ->
               [event |-> "BothButtonsPress", button_mask |-> ored]
          [] new = 0 ->
               [event |-> CASE b = 1 -> "LeftButtonRelease"
                            [] b = 2 -> "RightButtonRelease"
                            [] b = 3 -> "BothButtonsRelease"
                            [] OTHER -> NoEvent,
                button_mask |-> 0]
          [] OTHER ->
               [event |-> NoEvent, button_mask |-> ored]

----------------------------------------------------------------------------
(* ui.rs:64-81  get_event, one received buffer at a time *)

Tags == (BUTTON_PUSH_TAG - TagSpread)..(BUTTON_PUSH_TAG + TagSpread)
Byte3s == 0..MaxByte3
\* the buffers seph_recv may deliver; bytes 1 and 2 are never read
Buffers == {<<t, 0, 0, b>> : t \in Tags, b \in Byte3s}

\* mutant: the `tag == 0x05` test is missing, every buffer is classified
get_event_AnyTag(buf) == get_button_event(button_mask, button_info(buf))

\* ui.rs:72-78: what a received buffer makes of the classifier
get_event(buf) ==
    IF buf[1] = BUTTON_PUSH_TAG
    THEN get_button_event(button_mask, button_info(buf))
    ELSE [event |-> NoEvent, button_mask |-> button_mask]

\* ui.rs:65-79: seph_recv fills cmd_buffer and a button buffer goes through
\* the classifier. Whether a buffer of another tag makes get_event receive
\* again (is_status_sent() still true) or return None to the widget loop,
\* which calls get_event again, the next thing to happen is the next receive.
Receive(buf) ==
    LET r == get_event(buf)
        isButton == buf[1] = BUTTON_PUSH_TAG
        new == button_info(buf)
    IN  /\ cmd_buffer' = buf
        /\ button_mask' = r.button_mask
        /\ ev' = r.event
        /\ old' = IF isButton THEN button_mask ELSE old
        /\ held' = IF ~isButton THEN held
                   ELSE IF new = 0 THEN 0 ELSE BitOr(held, new)
        /\ lastLR' = IF r.event \in {"LeftButtonRelease", "RightButtonRelease"}
                     THEN r.event ELSE lastLR
        /\ pressed' = IF ~isButton THEN pressed
                      ELSE IF new = 0 THEN {}
                      ELSE IF r.event \in Presses
                      THEN pressed \cup {r.event} ELSE pressed

\* ui.rs:13-20 ButtonsState::default()
ButtonsStateNew ==
    /\ button_mask' = 0
    /\ cmd_buffer' = <<0, 0, 0, 0>>

----------------------------------------------------------------------------
(* Drawing calls (crate::bagls), logged in the order the code issues them *)

Call(obj, arg, bold, op) == [obj |-> obj, arg |-> arg, bold |-> bold, op |-> op]
Paint(obj) == Call(obj, <<>>, FALSE, "paint")
Display(obj) == Call(obj, <<>>, FALSE, "display")

----------------------------------------------------------------------------
(* ui.rs:102-148  Validator::ask *)

\* mutant: the press arms select a response too
ValidatorResponse_PressSelects(resp, e) ==
    CASE e \in {"LeftButtonRelease", "LeftButtonPress"} -> TRUE
      [] e \in {"RightButtonRelease", "RightButtonPress"} -> FALSE
      [] OTHER -> resp

\* ui.rs:122-131: the selected response after event e
ValidatorResponse(resp, e) ==
    CASE e = "LeftButtonRelease" -> TRUE
      [] e = "RightButtonRelease" -> FALSE
      [] OTHER -> resp

\* ui.rs:116-146: the drawing calls of one loop iteration
ValidatorDraw(resp, e) ==
    CASE e = "LeftButtonPress" -> <<Paint("UP_ARROW")>>
      [] e = "RightButtonPress" -> <<Paint("DOWN_ARROW")>>
      [] e = "LeftButtonRelease" ->
           <<Display("cancel"), Call("yes", <<>>, TRUE, "paint")>>
      [] e = "RightButtonRelease" ->
           <<Call("cancel", <<>>, TRUE, "display"), Paint("yes")>>
      [] e = "BothButtonsPress" ->
           IF resp THEN <<Call("yes", <<>>, TRUE, "display")>>
                   ELSE <<Call("cancel", <<>>, TRUE, "display")>>
      [] OTHER -> <<>>

\* ui.rs:103-112
ValidatorAskStart ==
    /\ widget = "Validator" /\ pc = "start"
    /\ ButtonsStateNew
    /\ drawn' = <<Display("cancel"), Call("yes", <<>>, TRUE, "paint")>>
    /\ response' = TRUE
    /\ pc' = "loop"
    /\ UNCHANGED <<widget, len, rights, seen, page_count, cur_page, index,
                   cur_idx, ret, old, ev, held, lastLR, pressed>>

\* ui.rs:114-147
ValidatorAskLoop ==
    /\ widget = "Validator" /\ pc = "loop"
    /\ \E buf \in Buffers :
         /\ Receive(buf)
         /\ LET e == get_event(buf).event
            IN  /\ response' = ValidatorResponse(response, e)
                /\ drawn' = ValidatorDraw(response, e)
                /\ pc' = IF e = "BothButtonsRelease" THEN "done" ELSE "loop"
                /\ ret' = IF e = "BothButtonsRelease" THEN <<response>> ELSE ret
    /\ UNCHANGED <<widget, len, rights, seen, page_count, cur_page, index, cur_idx>>

----------------------------------------------------------------------------
(* ui.rs:339-352  SingleMessage::show_and_wait *)

\* mutant: only the BothButtonsRelease arm returns
SingleMessageReturns_OnlyBoth(e) == e = "BothButtonsRelease"

\* mutant: the RightButtonRelease arm is missing
SingleMessageReturns_NoRight(e) ==
    e \in {"LeftButtonRelease", "BothButtonsRelease"}

\* ui.rs:346-349: does the loop return on e
SingleMessageReturns(e) ==
    e \in {"LeftButtonRelease", "RightButtonRelease", "BothButtonsRelease"}

\* ui.rs:340-342
SingleMessageStart ==
    /\ widget = "SingleMessage" /\ pc = "start"
    /\ ButtonsStateNew
    /\ drawn' = <<Display("message")>>
    /\ pc' = "loop"
    /\ UNCHANGED <<widget, len, rights, seen, response, page_count, cur_page,
                   index, cur_idx, ret, old, ev, held, lastLR, pressed>>

\* ui.rs:344-351
SingleMessageLoop ==
    /\ widget = "SingleMessage" /\ pc = "loop"
    /\ \E buf \in Buffers :
         /\ Receive(buf)
         /\ LET e == get_event(buf).event
            IN  /\ pc' = IF SingleMessageReturns(e) THEN "done" ELSE "loop"
                /\ ret' = IF SingleMessageReturns(e) THEN <<"unit">> ELSE ret
    /\ drawn' = <<>>
    /\ UNCHANGED <<widget, len, rights, seen, response, page_count, cur_page, index,
                   cur_idx>>

----------------------------------------------------------------------------
(* ui.rs:177-248  MessageValidator::ask *)

\* the message pages among the drawing calls d (ui.rs:210 `self.message[page]`)
PagesDrawn(d) == {d[i].arg[1] : i \in {j \in DOMAIN d : d[j].obj = "message"}}

\* ui.rs:203-217: the closure `draw`
MessageValidatorDraw(page, count) ==
    (IF page = count - 2
     THEN <<Display("draw_icon_and_text(CheckBadge, confirm)"),
            Paint("RIGHT_ARROW")>>
     ELSE IF page = count - 1
     THEN <<Display("draw_icon_and_text(CrossBadge, cancel)")>>
     ELSE <<Call("message", <<page>>, FALSE, "display"),
            Paint("RIGHT_ARROW")>>)
    \o (IF page > 0 THEN <<Paint("LEFT_ARROW")>> ELSE <<>>)

\* mutant: the RightButtonRelease arm increments without its guard
MessageValidatorPage_NoClamp(page, count, e) ==
    CASE e = "LeftButtonRelease" -> IF page > 0 THEN page - 1 ELSE page
      [] e = "RightButtonRelease" -> page + 1
      [] OTHER -> page

\* ui.rs:224-235: the page after event e
MessageValidatorPage(page, count, e) ==
    CASE e = "LeftButtonRelease" -> IF page > 0 THEN page - 1 ELSE page
      [] e = "RightButtonRelease" -> IF page < count - 1 THEN page + 1 ELSE page
      [] OTHER -> page

\* mutant: `cur_page <= page_count - 2` confirms, so message pages confirm too
MessageValidatorReturn_AnyPage(page, count, e) ==
    IF e # "BothButtonsRelease" THEN <<>>
    ELSE IF page <= count - 2 THEN <<TRUE>>
    ELSE <<FALSE>>

\* ui.rs:236-244: <<b>> when event e on `page` makes ask return b, else <<>>
MessageValidatorReturn(page, count, e) ==
    IF e # "BothButtonsRelease" THEN <<>>
    ELSE IF page = count - 2 THEN <<TRUE>>
    ELSE IF page = count - 1 THEN <<FALSE>>
    ELSE <<>>

\* ui.rs:178-221
MessageValidatorStart ==
    /\ widget = "MessageValidator" /\ pc = "start"
    /\ page_count' = len + 2
    /\ cur_page' = 0
    /\ drawn' = MessageValidatorDraw(0, len + 2)
    /\ ButtonsStateNew
    /\ pc' = "loop"
    /\ seen' = PagesDrawn(MessageValidatorDraw(0, len + 2))
    /\ UNCHANGED <<widget, len, response, index, cur_idx, ret,
                   old, ev, held, lastLR, pressed, rights>>

\* ui.rs:222-247
MessageValidatorLoop ==
    /\ widget = "MessageValidator" /\ pc = "loop"
    /\ \E buf \in Buffers :
         /\ Receive(buf)
         /\ LET e == get_event(buf).event
                r == MessageValidatorReturn(cur_page, page_count, e)
                p == MessageValidatorPage(cur_page, page_count, e)
            IN  /\ cur_page' = p
                /\ drawn' = IF p # cur_page
                            THEN MessageValidatorDraw(p, page_count) ELSE <<>>
                /\ pc' = IF r # <<>> THEN "done" ELSE "loop"
                /\ ret' = r
                /\ rights' = IF e = "RightButtonRelease"
                             THEN Min(rights + 1, len + 1) ELSE rights
                /\ seen' = IF p # cur_page
                           THEN seen \cup PagesDrawn(MessageValidatorDraw(p, page_count))
                           ELSE seen
    /\ UNCHANGED <<widget, len, response, page_count, index, cur_idx>>

----------------------------------------------------------------------------
(* ui.rs:260-318  Menu::show *)

\* mutant: `index < self.panels.len()` lets the index run one past the end
MenuIndex_OffByOne(i, n, e) ==
    CASE e = "LeftButtonRelease" -> saturating_sub(i, 1)
      [] e = "RightButtonRelease" -> IF i < n THEN i + 1 ELSE i
      [] OTHER -> i

\* ui.rs:286-296: the index after event e over n panels
MenuIndex(i, n, e) ==
    CASE e = "LeftButtonRelease" -> saturating_sub(i, 1)
      [] e = "RightButtonRelease" -> IF i < n - 1 THEN i + 1 ELSE i
      [] OTHER -> i

\* mutant: `a = index`, the pair is not aligned on an even index
MenuRedraw_NoAlign(i, n) ==
    LET a == i
        newbot == IF a + 1 < n THEN <<a + 1>> ELSE <<>>
    IN  <<Display("UP_ARROW"), Paint("DOWN_ARROW")>>
        \o (IF i % 2 = 0
            THEN <<Call("top", <<a>>, TRUE, "paint")>>
                 \o (IF newbot # <<>>
                     THEN <<Call("bot", newbot, FALSE, "paint")>> ELSE <<>>)
            ELSE <<Call("top", <<a>>, FALSE, "paint")>>
                 \o (IF newbot # <<>>
                     THEN <<Call("bot", newbot, TRUE, "paint")>> ELSE <<>>))

\* ui.rs:297-313: the redraw of the pair of labels around index i
MenuRedraw(i, n) ==
    LET a == (i \div 2) * 2
        newbot == IF a + 1 < n THEN <<a + 1>> ELSE <<>>
    IN  <<Display("UP_ARROW"), Paint("DOWN_ARROW")>>
        \o (IF i % 2 = 0
            THEN <<Call("top", <<a>>, TRUE, "paint")>>
                 \o (IF newbot # <<>>
                     THEN <<Call("bot", newbot, FALSE, "paint")>> ELSE <<>>)
            ELSE <<Call("top", <<a>>, FALSE, "paint")>>
                 \o (IF newbot # <<>>
                     THEN <<Call("bot", newbot, TRUE, "paint")>> ELSE <<>>))

\* ui.rs:275-316: the drawing calls of one loop iteration; i is the new index
MenuDraw(i, n, e) ==
    CASE e = "LeftButtonPress" -> <<Paint("UP_S_ARROW")>>
      [] e = "RightButtonPress" -> <<Paint("DOWN_S_ARROW")>>
      [] e = "BothButtonsRelease" -> <<>>
      [] e = NoEvent -> <<>>
      [] OTHER -> MenuRedraw(i, n)

\* ui.rs:261-272; panels[1] is out of bounds for fewer than two panels
MenuStart ==
    /\ widget = "Menu" /\ pc = "start"
    /\ ButtonsStateNew
    /\ IF len < 2
       THEN /\ pc' = "panicked"
            /\ UNCHANGED <<drawn, index>>
       ELSE /\ drawn' = <<Call("bot", <<1>>, FALSE, "display"),
                          Call("top", <<0>>, TRUE, "paint"),
                          Paint("UP_ARROW"), Paint("DOWN_ARROW")>>
            /\ index' = 0
            /\ pc' = "loop"
    /\ UNCHANGED <<widget, len, rights, seen, response, page_count, cur_page,
                   cur_idx, ret, old, ev, held, lastLR, pressed>>

\* ui.rs:274-317
MenuLoop ==
    /\ widget = "Menu" /\ pc = "loop"
    /\ \E buf \in Buffers :
         /\ Receive(buf)
         /\ LET e == get_event(buf).event
                i == MenuIndex(index, len, e)
            IN  /\ index' = i
                /\ drawn' = MenuDraw(i, len, e)
                /\ pc' = IF e = "BothButtonsRelease" THEN "done" ELSE "loop"
                /\ ret' = IF e = "BothButtonsRelease" THEN <<index>> ELSE ret
    /\ UNCHANGED <<widget, len, rights, seen, response, page_count, cur_page, cur_idx>>

----------------------------------------------------------------------------
(* ui.rs:371-424  MessageScroller::event_loop *)

\* ui.rs:374: `(self.message.len()-1) / CHAR_N + 1` as the release build
\* computes it (the subtraction wraps for an empty message)
MessageScrollerPageCount(n) ==
    IF n >= 1 THEN (n - 1) \div CHAR_N + 1 ELSE UsizeMaxDiv(CHAR_N) + 1

\* ui.rs:384-386: the slice message[start..end] exists iff start <= end
MessageScrollerSliceOk(page, n) ==
    page * CHAR_N <= Min(page * CHAR_N + CHAR_N, n)

\* mutant: `end = start + CHAR_N` without `.min(self.message.len())`
MessageScrollerDraw_NoMin(page, count, n) ==
    LET start == page * CHAR_N
        end == start + CHAR_N
    IN  <<Call("label", <<start, end>>, FALSE, "display")>>
        \o (IF page > 0 THEN <<Paint("LEFT_ARROW")>> ELSE <<>>)
        \o (IF page + 1 < count THEN <<Paint("RIGHT_ARROW")>> ELSE <<>>)

\* ui.rs:383-394: the closure `draw`
MessageScrollerDraw(page, count, n) ==
    LET start == page * CHAR_N
        end == Min(start + CHAR_N, n)
    IN  <<Call("label", <<start, end>>, FALSE, "display")>>
        \o (IF page > 0 THEN <<Paint("LEFT_ARROW")>> ELSE <<>>)
        \o (IF page + 1 < count THEN <<Paint("RIGHT_ARROW")>> ELSE <<>>)

\* mutant: `cur_page < page_count` lets cur_page reach page_count
MessageScrollerPage_OffByOne(page, count, e) ==
    CASE e = "LeftButtonRelease" -> IF page > 0 THEN page - 1 ELSE page
      [] e = "RightButtonRelease" -> IF page < count THEN page + 1 ELSE page
      [] OTHER -> page

\* ui.rs:406-419: the page after event e
MessageScrollerPage(page, count, e) ==
    CASE e = "LeftButtonRelease" -> IF page > 0 THEN page - 1 ELSE page
      [] e = "RightButtonRelease" -> IF page + 1 < count THEN page + 1 ELSE page
      [] OTHER -> page

\* ui.rs:372-396; with overflow checks (debug build) `len()-1` panics for an
\* empty message, without them (release build) it wraps
MessageScrollerStart ==
    /\ widget = "MessageScroller" /\ pc = "start"
    /\ ButtonsStateNew
    /\ \E overflow_checks \in BOOLEAN :
         IF overflow_checks /\ len = 0
         THEN /\ pc' = "panicked"
              /\ UNCHANGED <<page_count, cur_page, drawn, ret>>
         ELSE LET count == MessageScrollerPageCount(len)
              IN  /\ page_count' = count
                  /\ IF count = 0
                     THEN /\ pc' = "done"
                          /\ ret' = <<"unit">>
                          /\ UNCHANGED <<cur_page, drawn>>
                     ELSE /\ cur_page' = 0
                          /\ drawn' = MessageScrollerDraw(0, count, len)
                          /\ pc' = "loop"
                          /\ UNCHANGED ret
    /\ UNCHANGED <<widget, len, rights, seen, response, index, cur_idx, old,
                   ev, held, lastLR, pressed>>

\* ui.rs:398-423
MessageScrollerLoop ==
    /\ widget = "MessageScroller" /\ pc = "loop"
    /\ \E buf \in Buffers :
         /\ Receive(buf)
         /\ LET e == get_event(buf).event
                p == MessageScrollerPage(cur_page, page_count, e)
            IN  /\ cur_page' = p
                /\ CASE e = "LeftButtonPress" ->
                          /\ drawn' = <<Paint("LEFT_S_ARROW")>>
                          /\ pc' = "loop"
                     [] e = "RightButtonPress" ->
                          /\ drawn' = <<Paint("RIGHT_S_ARROW")>>
                          /\ pc' = "loop"
                     [] e \in {"LeftButtonRelease", "RightButtonRelease"} ->
                          IF MessageScrollerSliceOk(p, len)
                          THEN /\ drawn' = MessageScrollerDraw(p, page_count, len)
                               /\ pc' = "loop"
                          ELSE /\ drawn' = <<>>
                               /\ pc' = "panicked"
                     [] e = "BothButtonsRelease" ->
                          /\ drawn' = <<>>
                          /\ pc' = "done"
                     [] OTHER ->
                          /\ drawn' = <<>>
                          /\ pc' = "loop"
                /\ ret' = IF e = "BothButtonsRelease" THEN <<"unit">> ELSE ret
    /\ UNCHANGED <<widget, len, rights, seen, response, page_count, index, cur_idx>>

----------------------------------------------------------------------------
(* ui.rs:439-483  HScroller::event_loop *)

\* mutant: `cur_idx <= last_item` lets cur_idx run one past the end
HScrollerIdx_OffByOne(i, n, e) ==
    CASE e = "LeftButtonRelease" -> IF i > 0 THEN i - 1 ELSE i
      [] e = "RightButtonRelease" -> IF i <= n - 1 THEN i + 1 ELSE i
      [] OTHER -> i

\* ui.rs:454-470: cur_idx after event e over n screens
HScrollerIdx(i, n, e) ==
    CASE e = "LeftButtonRelease" -> IF i > 0 THEN i - 1 ELSE i
      [] e = "RightButtonRelease" -> IF i < n - 1 THEN i + 1 ELSE i
      [] OTHER -> i

\* mutant: the `if cur_idx != 0` around LEFT_ARROW.paint() is missing
HScrollerDraw_AlwaysLeft(i, n, e) ==
    CASE e = "LeftButtonPress" -> <<Paint("LEFT_S_ARROW")>>
      [] e = "RightButtonPress" -> <<Paint("RIGHT_S_ARROW")>>
      [] e = "LeftButtonRelease" ->
           <<Display("RIGHT_ARROW"), Paint("LEFT_ARROW"),
             Call("screens", <<i>>, FALSE, "paint")>>
      [] e = "RightButtonRelease" ->
           <<Display("LEFT_ARROW")>>
           \o (IF i # n - 1 THEN <<Paint("RIGHT_ARROW")>> ELSE <<>>)
           \o <<Call("screens", <<i>>, FALSE, "paint")>>
      [] OTHER -> <<>>

\* ui.rs:448-480: the drawing calls of one loop iteration; i is the new cur_idx
HScrollerDraw(i, n, e) ==
    CASE e = "LeftButtonPress" -> <<Paint("LEFT_S_ARROW")>>
      [] e = "RightButtonPress" -> <<Paint("RIGHT_S_ARROW")>>
      [] e = "LeftButtonRelease" ->
           <<Display("RIGHT_ARROW")>>
           \o (IF i # 0 THEN <<Paint("LEFT_ARROW")>> ELSE <<>>)
           \o <<Call("screens", <<i>>, FALSE, "paint")>>
      [] e = "RightButtonRelease" ->
           <<Display("LEFT_ARROW")>>
           \o (IF i # n - 1 THEN <<Paint("RIGHT_ARROW")>> ELSE <<>>)
           \o <<Call("screens", <<i>>, FALSE, "paint")>>
      [] OTHER -> <<>>

\* ui.rs:440-444; screens[0] is out of bounds for an empty list
HScrollerStart ==
    /\ widget = "HScroller" /\ pc = "start"
    /\ ButtonsStateNew
    /\ cur_idx' = 0
    /\ IF len = 0
       THEN /\ drawn' = <<Display("RIGHT_ARROW")>>
            /\ pc' = "panicked"
       ELSE /\ drawn' = <<Display("RIGHT_ARROW"),
                          Call("screens", <<0>>, FALSE, "paint")>>
            /\ pc' = "loop"
    /\ UNCHANGED <<widget, len, rights, seen, response, page_count, cur_page,
                   index, ret, old, ev, held, lastLR, pressed>>

\* ui.rs:446-482
HScrollerLoop ==
    /\ widget = "HScroller" /\ pc = "loop"
    /\ \E buf \in Buffers :
         /\ Receive(buf)
         /\ LET e == get_event(buf).event
                i == HScrollerIdx(cur_idx, len, e)
            IN  /\ cur_idx' = i
                /\ drawn' = HScrollerDraw(i, len, e)
                /\ pc' = IF e = "BothButtonsRelease" THEN "done" ELSE "loop"
                /\ ret' = IF e = "BothButtonsRelease" THEN <<"unit">> ELSE ret
    /\ UNCHANGED <<widget, len, rights, seen, response, page_count, cur_page, index>>

----------------------------------------------------------------------------
(* The widget is constructed over its input and its method is about to run *)

\* the lengths the widget's input may have
Lens(w) ==
    CASE w = "MessageValidator" -> 0..MaxPages
      [] w = "Menu" -> 0..MaxPanels
      [] w = "MessageScroller" ->
           {0, 1} \cup {k * CHAR_N + d : k \in 1..MaxChunks, d \in {-1, 0, 1}}
      [] w = "HScroller" -> 0..MaxScreens
      [] OTHER -> {0}

Init ==
    /\ widget \in Widgets
    /\ len \in Lens(widget)
    /\ pc = "start"
    /\ button_mask = 0
    /\ cmd_buffer = <<0, 0, 0, 0>>
    /\ response = TRUE
    /\ page_count = 0
    /\ cur_page = 0
    /\ index = 0
    /\ cur_idx = 0
    /\ ret = <<>>
    /\ drawn = <<>>
    /\ old = 0
    /\ ev = NoEvent
    /\ held = 0
    /\ lastLR = "none"
    /\ pressed = {}
    /\ rights = 0
    /\ seen = {}

Next ==
    \/ ValidatorAskStart
    \/ ValidatorAskLoop
    \/ MessageValidatorStart
    \/ MessageValidatorLoop
    \/ MenuStart
    \/ MenuLoop
    \/ SingleMessageStart
    \/ SingleMessageLoop
    \/ MessageScrollerStart
    \/ MessageScrollerLoop
    \/ HScrollerStart
    \/ HScrollerLoop

Spec == Init /\ [][Next]_vars

----------------------------------------------------------------------------
(* Properties *)

\* the last buffer received went through the classifier: `old` is the mask
\* it found, LastNew the level it was given and `ev` its result
Classified == cmd_buffer[1] = BUTTON_PUSH_TAG
LastNew == button_info(cmd_buffer)

\* the step receives a button buffer: button_mask is the classifier's `old`,
\* NextNew its `new` and ev' its result
Classifies == pc = "loop" /\ cmd_buffer'[1] = BUTTON_PUSH_TAG
NextNew == button_info(cmd_buffer')

\* the release event that stands for a set of held bits
ReleaseOf(bits) ==
    CASE bits = 1 -> "LeftButtonRelease"
      [] bits = 2 -> "RightButtonRelease"
      [] bits = 3 -> "BothButtonsRelease"
      [] OTHER -> NoEvent

\* the table of events of claim C1
TableEvent(o, n) ==
    CASE o = 0 /\ n = 1 -> "LeftButtonPress"
      [] o = 0 /\ n = 2 -> "RightButtonPress"
      [] n = 3 -> "BothButtonsPress"
      [] o = 1 /\ n = 0 -> "LeftButtonRelease"
      [] o = 2 /\ n = 0 -> "RightButtonRelease"
      [] o = 3 /\ n = 0 -> "BothButtonsRelease"
      [] OTHER -> NoEvent

\* C1: for old and new in 0..3 get_button_event returns the event of the
\* table ((0,1) LeftButtonPress, (0,2) RightButtonPress, (_,3)
\* BothButtonsPress, (1,0) (2,0) (3,0) the Left, Right, Both release, no
\* event for every other pair), and after a call with new = 0 button_mask is 0.
C1_ClassifierTable ==
    /\ (Classified /\ old \in 0..3 /\ LastNew \in 0..3)
          => ev = TableEvent(old, LastNew)
    /\ (Classified /\ LastNew = 0) => button_mask = 0

\* C1 witness: a pair outside the table's named rows, (2,1), gave no event
C1_Witness ==
    /\ Classified /\ old = 2 /\ LastNew = 1
    /\ ev = NoEvent /\ button_mask = 3

\* C2 as stated: when a level 0 report follows a 2-bit report, the release
\* event is the one of the bits asserted in that immediately preceding report.
C2_ReleaseMatchesPrecedingReport ==
    [][(Classifies /\ NextNew = 0 /\ Classified /\ held \in 0..3)
          => ev' = ReleaseOf(LastNew)]_vars

\* C2 amended: when a level 0 report arrives, the release event is the one of
\* the bits accumulated (OR-ed) over all the 2-bit reports since the previous
\* level 0 report, and no event if nothing was reported down.
C2_ReleaseMatchesAccumulatedBits ==
    [][(Classifies /\ NextNew = 0 /\ held \in 0..3)
          => (ev' = ReleaseOf(held) /\ button_mask' = 0)]_vars

\* C2 witness: both bits were accumulated and the level 0 report gave
\* BothButtonsRelease (in a loop that goes on after it)
C2_Witness ==
    /\ widget = "MessageValidator" /\ pc = "loop"
    /\ Classified /\ LastNew = 0 /\ old = 3
    /\ ev = "BothButtonsRelease" /\ held = 0 /\ button_mask = 0

\* C3: Menu.show over L >= 2 panels keeps index in [0, L-1];
\* LeftButtonRelease sets it to max(index-1, 0), RightButtonRelease to
\* min(index+1, L-1), no other event changes it, and BothButtonsRelease
\* returns the current index.
C3_MenuCursor ==
    /\ []((widget = "Menu" /\ pc \in {"loop", "done"} /\ len >= 2)
             => index \in 0..(len - 1))
    /\ [][(widget = "Menu" /\ pc = "loop" /\ len >= 2) =>
            /\ index' = CASE ev' = "LeftButtonRelease" -> Max(index - 1, 0)
                          [] ev' = "RightButtonRelease" -> Min(index + 1, len - 1)
                          [] OTHER -> index
            /\ (ev' = "BothButtonsRelease") = (pc' = "done")
            /\ (pc' = "done") => ret' = <<index>>]_vars

\* C3 witness: five panels, the cursor is on the last one after a
\* RightButtonRelease
C3_Witness ==
    /\ widget = "Menu" /\ pc = "loop" /\ len = 5
    /\ index = 4 /\ ev = "RightButtonRelease"

\* C4: MessageValidator.ask over n = len message pages has page_count = n+2;
\* BothButtonsRelease on a page < n changes nothing and the loop goes on, on
\* page n it returns true, on page n+1 it returns false, and ask returns in
\* no other way.
C4_MessageValidatorTerminal ==
    /\ []((widget = "MessageValidator" /\ pc # "start") => page_count = len + 2)
    /\ [][(widget = "MessageValidator" /\ pc = "loop") =>
            /\ (ev' = "BothButtonsRelease" /\ cur_page < len)
                  => (pc' = "loop" /\ cur_page' = cur_page /\ ret' = <<>>)
            /\ (ev' = "BothButtonsRelease" /\ cur_page = len)
                  => (pc' = "done" /\ ret' = <<TRUE>>)
            /\ (ev' = "BothButtonsRelease" /\ cur_page = len + 1)
                  => (pc' = "done" /\ ret' = <<FALSE>>)
            /\ (pc' # "loop")
                  => (pc' = "done" /\ ev' = "BothButtonsRelease"
                      /\ cur_page \in {len, len + 1})]_vars

\* C4 witness: three message pages, BothButtonsRelease arrived on page 1 and
\* the loop is still running there
C4_Witness ==
    /\ widget = "MessageValidator" /\ len = 3 /\ pc = "loop"
    /\ cur_page = 1 /\ ev = "BothButtonsRelease" /\ ret = <<>>

\* C5: MessageScroller.event_loop has page_count = ceil(len / 16) for every
\* message length, 0 included, and for an empty message it returns at once
\* without drawing and without waiting for an event.
C5_EmptyMessageReturns ==
    (widget = "MessageScroller" /\ pc # "start") =>
        /\ page_count = (len + CHAR_N - 1) \div CHAR_N
        /\ (len = 0) => (pc = "done" /\ drawn = <<>> /\ ~Classified)

\* C6: SingleMessage.show_and_wait returns at the first LeftButtonRelease,
\* RightButtonRelease or BothButtonsRelease get_event hands it, and on
\* nothing else (press events, None).
C6_SingleMessageAnyRelease ==
    [][(widget = "SingleMessage" /\ pc = "loop") =>
          /\ (pc' = "done") = (ev' \in Releases)
          /\ (pc' = "loop") = (ev' \in Presses \cup {NoEvent})
          /\ (pc' = "done") => ret' = <<"unit">>]_vars

\* C6 witness: the loop has returned on a LeftButtonRelease
C6_Witness ==
    /\ widget = "SingleMessage" /\ pc = "done"
    /\ ev = "LeftButtonRelease" /\ old = 1

\* C7 as stated: SingleMessage.show_and_wait terminates on
\* BothButtonsRelease only.
C7_OnlyBothTerminates ==
    (widget = "SingleMessage" /\ pc = "done") => ev = "BothButtonsRelease"

\* C7 amended: in SingleMessage.show_and_wait every release event ends the
\* loop: a LeftButtonRelease or a RightButtonRelease terminates it just as
\* BothButtonsRelease does, so no release is ever followed by another event.
C7_EveryReleaseTerminates ==
    (widget = "SingleMessage" /\ ev \in Releases)
        => (pc = "done" /\ ret = <<"unit">>)

\* C7 witness: the loop has returned on a RightButtonRelease
C7_Witness ==
    /\ widget = "SingleMessage" /\ pc = "done"
    /\ ev = "RightButtonRelease" /\ ret = <<"unit">>

\* C8: HScroller.event_loop over L >= 1 screens ends on BothButtonsRelease
\* and on nothing else; cur_idx stays in [0, L-1], LeftButtonRelease gives
\* max(cur_idx-1, 0) and RightButtonRelease min(cur_idx+1, L-1); for L = 1
\* no Left or Right release moves cur_idx.
C8_HScrollerCursor ==
    /\ []((widget = "HScroller" /\ pc \in {"loop", "done"} /\ len >= 1)
             => cur_idx \in 0..(len - 1))
    /\ [][(widget = "HScroller" /\ pc = "loop" /\ len >= 1) =>
            /\ cur_idx' = CASE ev' = "LeftButtonRelease" -> Max(cur_idx - 1, 0)
                            [] ev' = "RightButtonRelease" ->
                                 Min(cur_idx + 1, len - 1)
                            [] OTHER -> cur_idx
            /\ (pc' # "loop") = (ev' = "BothButtonsRelease")
            /\ (pc' # "loop") => (pc' = "done" /\ ret' = <<"unit">>)
            /\ (len = 1 /\ ev' \in {"LeftButtonRelease", "RightButtonRelease"})
                  => (cur_idx' = 0 /\ cur_idx = 0 /\ pc' = "loop")]_vars

\* C8 witness: the lone screen, a RightButtonRelease has been handled and the
\* loop is still running on screen 0
C8_Witness ==
    /\ widget = "HScroller" /\ len = 1 /\ pc = "loop"
    /\ ev = "RightButtonRelease" /\ cur_idx = 0

\* C9: Validator.ask starts with response = true; it returns at the first
\* BothButtonsRelease, true if the most recent Left/Right release was
\* LeftButtonRelease or there was none, false if it was RightButtonRelease;
\* press events never change response.
C9_ValidatorResponse ==
    /\ []((widget = "Validator" /\ pc \in {"loop", "done"})
             => response = (lastLR # "RightButtonRelease"))
    /\ []((widget = "Validator" /\ pc = "done")
             => (ev = "BothButtonsRelease"
                 /\ ret = <<lastLR # "RightButtonRelease">>))
    /\ [][(widget = "Validator" /\ pc = "start")
             => (response' = TRUE /\ lastLR' = "none")]_vars
    /\ [][(widget = "Validator" /\ pc = "loop") =>
            /\ (pc' = "done") = (ev' = "BothButtonsRelease")
            /\ (ev' \in Presses) => response' = response]_vars

\* C9 witness: ask has returned false, the last Left/Right release having
\* been a RightButtonRelease
C9_Witness ==
    /\ widget = "Validator" /\ pc = "done"
    /\ lastLR = "RightButtonRelease" /\ ret = <<FALSE>>

\* C10: a level 3 report while button_mask is already 3 yields
\* BothButtonsPress again and leaves button_mask at 3; the level 0 report
\* that follows yields BothButtonsRelease, and only one: a further level 0
\* report yields no event.
C10_BothPressNotEdgeTriggered ==
    /\ []((Classified /\ old = 3 /\ LastNew = 3)
             => (ev = "BothButtonsPress" /\ button_mask = 3))
    /\ [][(Classifies /\ button_mask = 3 /\ NextNew = 3)
             => (ev' = "BothButtonsPress" /\ button_mask' = 3)]_vars
    /\ [][(Classifies /\ button_mask = 3 /\ NextNew = 0)
             => (ev' = "BothButtonsRelease" /\ button_mask' = 0)]_vars
    /\ [][(Classifies /\ Classified /\ ev = "BothButtonsRelease"
           /\ NextNew = 0) => ev' = NoEvent]_vars

\* C10 witness: level 3 was reported with both buttons already held and gave
\* BothButtonsPress
C10_Witness ==
    /\ Classified /\ old = 3 /\ LastNew = 3
    /\ ev = "BothButtonsPress" /\ button_mask = 3

\* some drawing call of the log d is on the object obj
ShownIn(d, obj) == \E i \in DOMAIN d : d[i].obj = obj

C12_MaskIsTwoBit ==
    /\ button_mask \in 0..3
    /\ Classified =>
         LET r == get_button_event(old, (cmd_buffer[4] \div 2) % 4)
         IN  ev = r.event /\ button_mask = r.button_mask

\* C13: every received buffer of tag 0x05 goes through the classifier once,
\* with the mask the previous buffers left, and its result (None included)
\* is what the widget gets; a buffer of another tag leaves button_mask, the
\* widget's cursor and response, its loop and the display untouched.
C13_OneClassificationPerButtonBuffer ==
    [][(pc = "loop") =>
         IF cmd_buffer'[1] = BUTTON_PUSH_TAG
         THEN /\ old' = button_mask
              /\ ev' = get_button_event(button_mask, cmd_buffer'[4] \div 2).event
              /\ button_mask' =
                   get_button_event(button_mask, cmd_buffer'[4] \div 2).button_mask
         ELSE /\ ev' = NoEvent /\ drawn' = <<>> /\ pc' = "loop"
              /\ UNCHANGED <<button_mask, old, response, cur_page, index,
                             cur_idx, ret, held, pressed>>]_vars

\* C13 witness: a button buffer was classified to None (mask 1, level 2) and
\* handed to the Menu loop, whose cursor had moved before
C13_Witness ==
    /\ widget = "Menu" /\ pc = "loop" /\ index = 1
    /\ Classified /\ old = 1 /\ LastNew = 2 /\ ev = NoEvent /\ button_mask = 3

\* C14: in Validator.ask with 2-bit reports, a cycle in which level 3 was
\* reported emits no release event before its closing level 0 report, and
\* that report gives BothButtonsRelease, never a Left or Right release; the
\* response selected before the cycle is the one returned.
C14_BothCycleCommitsUnchanged ==
    [][(widget = "Validator" /\ Classifies /\ held \in 0..3
        /\ NextNew \in 0..3) =>
          /\ (NextNew # 0) => (ev' \notin Releases /\ response' = response
                                /\ pc' = "loop")
          /\ (NextNew = 0 /\ "BothButtonsPress" \in pressed)
                => (ev' = "BothButtonsRelease" /\ response' = response
                    /\ pc' = "done" /\ ret' = <<response>>)]_vars

\* C14 witness: cancel was selected, then both buttons were held and let go:
\* ask returned false on the BothButtonsRelease
C14_Witness ==
    /\ widget = "Validator" /\ pc = "done"
    /\ Classified /\ LastNew = 0 /\ old = 3 /\ ev = "BothButtonsRelease"
    /\ response = FALSE /\ ret = <<FALSE>>

\* C15: MessageValidator.ask: cur_page starts at 0 and stays in [0, len+1];
\* LeftButtonRelease decrements and redraws only if cur_page > 0,
\* RightButtonRelease increments and redraws only if cur_page < page_count-1;
\* at a clamped end, on a press and on None cur_page stays and nothing is drawn.
C15_MessageValidatorCursor ==
    /\ []((widget = "MessageValidator" /\ pc \in {"loop", "done"})
             => cur_page \in 0..(len + 1))
    /\ [][(widget = "MessageValidator" /\ pc = "start") => cur_page' = 0]_vars
    /\ [][(widget = "MessageValidator" /\ pc = "loop") =>
            /\ cur_page' =
                 CASE ev' = "LeftButtonRelease" /\ cur_page > 0 -> cur_page - 1
                   [] ev' = "RightButtonRelease" /\ cur_page < page_count - 1
                        -> cur_page + 1
                   [] OTHER -> cur_page
            /\ (drawn' # <<>>) = (cur_page' # cur_page)
            /\ (drawn' # <<>>) =>
                  /\ drawn'[1].op = "display"
                  /\ (cur_page' < len) =>
                        drawn'[1] = Call("message", <<cur_page'>>, FALSE, "display")
                  /\ ShownIn(drawn', "LEFT_ARROW") = (cur_page' > 0)]_vars

\* C15 witness: three message pages, the cursor is on the cancel page and a
\* RightButtonRelease there drew nothing
C15_Witness ==
    /\ widget = "MessageValidator" /\ pc = "loop" /\ len = 3
    /\ cur_page = 4 /\ ev = "RightButtonRelease" /\ drawn = <<>>

LabelCalls(d, obj) == {i \in DOMAIN d : d[i].obj = obj}

\* C17: Menu.show over >= 2 panels: after the initial draw and after each
\* redraw the labels drawn are those of the even-aligned pair
\* a = (index/2)*2: top = panels[a], bottom = panels[a+1] if it exists and no
\* bottom label otherwise; exactly one label is bold, it is panels[index]
\* (top for an even index, bottom for an odd one); every panel index used is
\* within the list.
C17_MenuDisplay ==
    (widget = "Menu" /\ pc = "loop" /\ len >= 2
       /\ drawn # <<>> /\ drawn[1].op = "display") =>
        LET a == (index \div 2) * 2
            tops == LabelCalls(drawn, "top")
            bots == LabelCalls(drawn, "bot")
            bolds == {i \in tops \cup bots : drawn[i].bold}
        IN  /\ Cardinality(tops) = 1
            /\ \A i \in tops : drawn[i].arg = <<a>>
            /\ IF a + 1 < len
               THEN Cardinality(bots) = 1
                    /\ \A i \in bots : drawn[i].arg = <<a + 1>>
               ELSE bots = {}
            /\ Cardinality(bolds) = 1
            /\ \A i \in bolds :
                  /\ drawn[i].arg = <<index>>
                  /\ drawn[i].obj = IF index % 2 = 0 THEN "top" ELSE "bot"
            /\ \A i \in tops \cup bots : drawn[i].arg[1] \in 0..(len - 1)

\* C17 witness: five panels, the cursor is on the last one: the top label is
\* panels[4] in bold and there is no bottom label
C17_Witness ==
    /\ widget = "Menu" /\ pc = "loop" /\ len = 5 /\ index = 4
    /\ drawn = <<Display("UP_ARROW"), Paint("DOWN_ARROW"),
                 Call("top", <<4>>, TRUE, "paint")>>

\* C18: HScroller.event_loop: the first screen is drawn with a right arrow
\* only; after a LeftButtonRelease the right arrow is drawn, the left arrow
\* iff the new cur_idx # 0; after a RightButtonRelease the left arrow is
\* drawn, the right arrow iff the new cur_idx # len-1; in both cases the
\* screen at the new cur_idx is painted last.
C18_HScrollerArrows ==
    /\ [][(widget = "HScroller" /\ pc = "start" /\ len >= 1) =>
            /\ ShownIn(drawn', "RIGHT_ARROW") /\ ~ShownIn(drawn', "LEFT_ARROW")
            /\ drawn'[Len(drawn')] = Call("screens", <<0>>, FALSE, "paint")]_vars
    /\ [][(widget = "HScroller" /\ pc = "loop" /\ len >= 1
           /\ ev' \in {"LeftButtonRelease", "RightButtonRelease"}) =>
            /\ drawn' # <<>>
            /\ drawn'[1].op = "display"
            /\ \A i \in 2..Len(drawn') : drawn'[i].op = "paint"
            /\ IF ev' = "LeftButtonRelease"
               THEN /\ ShownIn(drawn', "RIGHT_ARROW")
                    /\ ShownIn(drawn', "LEFT_ARROW") = (cur_idx' # 0)
               ELSE /\ ShownIn(drawn', "LEFT_ARROW")
                    /\ ShownIn(drawn', "RIGHT_ARROW") = (cur_idx' # len - 1)
            /\ drawn'[Len(drawn')] =
                 Call("screens", <<cur_idx'>>, FALSE, "paint")]_vars

\* C18 witness: three screens, a RightButtonRelease reached the last one: the
\* left arrow and screen 2 are drawn, no right arrow
C18_Witness ==
    /\ widget = "HScroller" /\ pc = "loop" /\ len = 3 /\ cur_idx = 2
    /\ ev = "RightButtonRelease"
    /\ drawn = <<Display("LEFT_ARROW"), Call("screens", <<2>>, FALSE, "paint")>>

\* C19: MessageValidator.ask over n = len message pages returns true only
\* after at least n RightButtonRelease events and false only after at least
\* n+1, and every message page 0..n-1 has been drawn before it returns.
C19_NoReturnBeforePaging ==
    /\ (widget = "MessageValidator" /\ pc \in {"loop", "done"})
          => (cur_page <= rights /\ seen \subseteq 0..(len - 1))
    /\ (widget = "MessageValidator" /\ pc = "done") =>
          /\ ret \in {<<TRUE>>, <<FALSE>>}
          /\ (ret = <<TRUE>>) => rights >= len
          /\ (ret = <<FALSE>>) => rights >= len + 1
          /\ \A p \in 0..(len - 1) : p \in seen

\* C19 witness: three message pages, ask returned true after exactly three
\* RightButtonRelease events, pages 0, 1 and 2 having been drawn
C19_Witness ==
    /\ widget = "MessageValidator" /\ pc = "done" /\ len = 3
    /\ ret = <<TRUE>> /\ rights = 3 /\ seen = {0, 1, 2}

\* C20 as stated: with 2-bit reports, every release event is preceded, since
\* the previous level 0 report, by the press event of the same kind.
C20_ReleasePrecededBySamePress ==
    [][(Classifies /\ held \in 0..3 /\ NextNew \in 0..3) =>
          /\ (ev' = "LeftButtonRelease") => "LeftButtonPress" \in pressed
          /\ (ev' = "RightButtonRelease") => "RightButtonPress" \in pressed
          /\ (ev' = "BothButtonsRelease") => "BothButtonsPress" \in pressed]_vars

\* C20 amended: with 2-bit reports, a LeftButtonRelease is preceded, since
\* the previous level 0 report, by a LeftButtonPress and a RightButtonRelease
\* by a RightButtonPress; a BothButtonsRelease is preceded by at least one
\* press event, which need not be BothButtonsPress (reports 1, 2, 0).
C20_ReleasePrecededBySomePress ==
    [][(Classifies /\ held \in 0..3 /\ NextNew \in 0..3) =>
          /\ (ev' = "LeftButtonRelease") => "LeftButtonPress" \in pressed
          /\ (ev' = "RightButtonRelease") => "RightButtonPress" \in pressed
          /\ (ev' = "BothButtonsRelease") => pressed # {}
          /\ (ev' \in Releases) => NextNew = 0]_vars

\* C20 witness: left then right were reported (1, then 2): both bits are
\* held, the only press event was LeftButtonPress, and the next level 0
\* report gives BothButtonsRelease
C20_Witness ==
    /\ pc = "loop" /\ Classified /\ old = 1 /\ LastNew = 2
    /\ button_mask = 3 /\ held = 3 /\ pressed = {"LeftButtonPress"}

====
